---- MODULE Spec2Model ----
(***************************************************************************)
(* Jobly: the partial-update SQL builder (helpers/sql.js), the Company and *)
(* Job data-access modules (models/company.js, models/job.js) and the      *)
(* store they talk to through db.query.                                    *)
(*                                                                         *)
(* JavaScript values are tagged records: Null, Undefined, Num(n), Bool(b)  *)
(* and Text(s), s a sequence of one-character strings.  A JavaScript       *)
(* object is the sequence of its own <<key, value>> properties in          *)
(* iteration order.  A piece of SQL text is a sequence of lexemes (the     *)
(* text cut at token boundaries); Flatten gives the string itself.         *)
(***************************************************************************)
EXTENDS Integers, Sequences, FiniteSets, TLC

VARIABLES
    companies,    \* the companies table: a set of rows keyed by column name
    jobs,         \* the jobs table
    nextId,       \* the next value of the jobs.id sequence
    op,           \* the model method called last
    key,          \* its primary-key argument (handle or id)
    data,         \* its data argument (create payload, update data)
    filters,      \* its filters argument (findAll)
    outcome,      \* "ok" or the class of the error it threw
    ret,          \* what it returned
    log,          \* the db.query calls it made, in order
    companies0,   \* the companies table when the call started
    jobs0,        \* the jobs table when the call started
    jsToSql,      \* the alias map of the last sqlForPartialUpdate call
    built,        \* what that sqlForPartialUpdate call returned or threw
    input,        \* the argument of parseBool
    result,       \* what parseBool returned
    procs,        \* the create calls in flight, each between two round-trips
    users,        \* the usernames in the users table
    req           \* the request on a /users route and what has become of it

vars == <<companies, jobs, nextId, op, key, data, filters, outcome, ret, log,
          companies0, jobs0, jsToSql, built, input, result, procs, users, req>>

storeVars == <<companies, jobs, nextId>>
callVars == <<op, key, filters, outcome, ret, log, companies0, jobs0>>
boolVars == <<input, result>>
webVars == <<users, req>>

-----------------------------------------------------------------------------
(* Bounds *)

\* the longest dataToUpdate object handed to sqlForPartialUpdate on its own
MaxLen == 2
\* the longest data object handed to Company.update and Job.update
MaxKeys == 2

-----------------------------------------------------------------------------
(* JavaScript values *)

Null == [null |-> TRUE]
Undefined == [undefined |-> TRUE]
Num(n) == [num |-> n]
Bool(b) == [bool |-> b]
Text(s) == [text |-> s]

IsNum(v) == DOMAIN v = {"num"}
IsText(v) == DOMAIN v = {"text"}

\* Object.keys / Object.values of an object given as its property sequence
ObjectKeys(obj) == [i \in 1..Len(obj) |-> obj[i][1]]
ObjectValues(obj) == [i \in 1..Len(obj) |-> obj[i][2]]

\* obj[k] for a k the object has
Prop(obj, k) == obj[CHOOSE i \in 1..Len(obj) : obj[i][1] = k][2]
HasProp(obj, k) == \E i \in 1..Len(obj) : obj[i][1] = k

\* the objects with at most n properties, keys from K (each at most once),
\* the value of key k from V[k]
RECURSIVE ObjectsOver(_, _, _)
ObjectsOver(K, V, n) ==
    IF n = 0 \/ K = {} THEN {<<>>}
    ELSE {<<>>} \cup
         UNION {{<<<<k, v>>>> \o rest : v \in V[k], rest \in ObjectsOver(K \ {k}, V, n - 1)}
                : k \in K}

-----------------------------------------------------------------------------
(* SQL text *)

RECURSIVE Flatten(_)
Flatten(lexemes) ==
    IF lexemes = <<>> THEN "" ELSE lexemes[1] \o Flatten(Tail(lexemes))

\* Array.prototype.join on an array of lexeme sequences
RECURSIVE Join(_, _)
Join(parts, sep) ==
    IF parts = <<>> THEN <<>>
    ELSE IF Len(parts) = 1 THEN parts[1]
    ELSE parts[1] \o <<sep>> \o Join(Tail(parts), sep)

\* the text "$n": the dollar sign, then the number in decimal
Placeholder(n) == <<"$", ToString(n)>>

\* the pieces of a lexeme sequence between its separators
RECURSIVE Split(_, _)
Split(lexemes, seps) ==
    IF \A i \in 1..Len(lexemes) : lexemes[i] \notin seps THEN <<lexemes>>
    ELSE LET at == CHOOSE i \in 1..Len(lexemes) :
                       lexemes[i] \in seps /\ \A j \in 1..(i - 1) : lexemes[j] \notin seps
         IN  <<SubSeq(lexemes, 1, at - 1)>>
                 \o Split(SubSeq(lexemes, at + 1, Len(lexemes)), seps)

-----------------------------------------------------------------------------
(* The store behind db.query: two tables, a parameterized-query primitive  *)

Columns(table) ==
    IF table = "companies"
    THEN {"handle", "name", "description", "num_employees", "logo_url"}
    ELSE {"id", "title", "salary", "equity", "company_handle"}

\* a JavaScript value as a query parameter: undefined is sent as NULL
AsParam(v) == IF v = Undefined THEN Null ELSE v

UpperCase == <<"A", "B", "C", "D", "E", "F", "G", "H", "I", "J", "K", "L", "M",
               "N", "O", "P", "Q", "R", "S", "T", "U", "V", "W", "X", "Y", "Z">>
LowerCase == <<"a", "b", "c", "d", "e", "f", "g", "h", "i", "j", "k", "l", "m",
               "n", "o", "p", "q", "r", "s", "t", "u", "v", "w", "x", "y", "z">>
Digits == <<"0", "1", "2", "3", "4", "5", "6", "7", "8", "9">>
\* the characters in code-point order
CodePoints == <<" ", "%">> \o Digits \o UpperCase \o <<"\\", "_">> \o LowerCase

Lower(c) ==
    IF \E i \in 1..Len(UpperCase) : UpperCase[i] = c
    THEN LowerCase[CHOOSE i \in 1..Len(UpperCase) : UpperCase[i] = c]
    ELSE c
LowerText(s) == [i \in 1..Len(s) |-> Lower(s[i])]

Rank(c) == CHOOSE i \in 1..Len(CodePoints) : CodePoints[i] = c

\* s <= t for two character sequences
RECURSIVE TextLeq(_, _)
TextLeq(s, t) ==
    IF s = <<>> THEN TRUE
    ELSE IF t = <<>> THEN FALSE
    ELSE IF s[1] = t[1] THEN TextLeq(Tail(s), Tail(t))
    ELSE Rank(s[1]) < Rank(t[1])

\* ORDER BY ... ASC: numbers by value, text by characters, NULL last
ValueLeq(a, b) ==
    IF b = Null THEN TRUE
    ELSE IF a = Null THEN FALSE
    ELSE IF IsNum(a) /\ IsNum(b) THEN a.num <= b.num
    ELSE IF IsText(a) /\ IsText(b) THEN TextLeq(a.text, b.text)
    ELSE FALSE

\* s LIKE p: % is any run of characters, _ any one character, \ escapes
RECURSIVE Like(_, _)
Like(s, p) ==
    IF p = <<>> THEN s = <<>>
    ELSE IF p[1] = "%"
    THEN \E k \in 0..Len(s) : Like(SubSeq(s, k + 1, Len(s)), Tail(p))
    ELSE IF p[1] = "_" THEN s # <<>> /\ Like(Tail(s), Tail(p))
    ELSE IF p[1] = "\\"
    THEN Len(p) >= 2 /\ s # <<>> /\ s[1] = p[2] /\ Like(Tail(s), Tail(Tail(p)))
    ELSE s # <<>> /\ s[1] = p[1] /\ Like(Tail(s), Tail(p))

ILike(s, p) == Like(LowerText(s), LowerText(p))

\* the decimal number a lexeme spells, among 0..n; -1 when it spells none
NumberIn(lexeme, n) ==
    IF \E k \in 0..n : ToString(k) = lexeme
    THEN CHOOSE k \in 0..n : ToString(k) = lexeme
    ELSE -1

Commas == {",", ", "}
Ands == {"AND", " AND "}
Punctuation == Commas \cup Ands \cup {"\"", "$", "=", ">=", "<=", ">", "AS", "ILIKE"}

\* one item of a select or RETURNING list: column, or column AS "name"
ParseItem(item) ==
    IF Len(item) = 1 /\ item[1] \notin Punctuation
    THEN [ok |-> TRUE, col |-> item[1], as |-> item[1]]
    ELSE IF /\ Len(item) = 5
            /\ item[1] \notin Punctuation /\ item[2] = "AS"
            /\ item[3] = "\"" /\ item[4] \notin Punctuation /\ item[5] = "\""
    THEN [ok |-> TRUE, col |-> item[1], as |-> item[4]]
    ELSE [ok |-> FALSE, col |-> "", as |-> ""]

\* one assignment of a SET clause: "column"=$n
ParseAssignment(item, nparams) ==
    IF /\ Len(item) = 6
       /\ item[1] = "\"" /\ item[2] \notin Punctuation /\ item[3] = "\""
       /\ item[4] = "=" /\ item[5] = "$" /\ NumberIn(item[6], nparams) >= 1
    THEN [ok |-> TRUE, col |-> item[2], param |-> NumberIn(item[6], nparams)]
    ELSE [ok |-> FALSE, col |-> "", param |-> 0]

\* one value of a VALUES list: $n
ParseValue(item, nparams) ==
    IF Len(item) = 2 /\ item[1] = "$" /\ NumberIn(item[2], nparams) >= 1
    THEN [ok |-> TRUE, param |-> NumberIn(item[2], nparams)]
    ELSE [ok |-> FALSE, param |-> 0]

\* one predicate of a WHERE clause: column op $n, or column op number
ParsePredicate(item, nparams) ==
    IF /\ Len(item) = 4
       /\ item[1] \notin Punctuation /\ item[2] \in {"=", ">=", "<=", ">", "ILIKE"}
       /\ item[3] = "$" /\ NumberIn(item[4], nparams) >= 1
    THEN [ok |-> TRUE, col |-> item[1], cmp |-> item[2],
          param |-> NumberIn(item[4], nparams), literal |-> 0]
    ELSE IF /\ Len(item) = 3
            /\ item[1] \notin Punctuation /\ item[2] \in {"=", ">=", "<=", ">"}
            /\ NumberIn(item[3], 9) >= 0
    THEN [ok |-> TRUE, col |-> item[1], cmp |-> item[2],
          param |-> 0, literal |-> NumberIn(item[3], 9)]
    ELSE [ok |-> FALSE, col |-> "", cmp |-> "", param |-> 0, literal |-> 0]

\* a clause cut at its separators; no clause, no items
Items(lexemes, seps) == IF lexemes = <<>> THEN <<>> ELSE Split(lexemes, seps)

\* the clauses of a statement, parsed item by item
ParseList(lexemes) ==
    LET items == Items(lexemes, Commas)
    IN  [i \in 1..Len(items) |-> ParseItem(items[i])]
ParseValues(lexemes, nparams) ==
    LET items == Items(lexemes, Commas)
    IN  [i \in 1..Len(items) |-> ParseValue(items[i], nparams)]
ParseSet(lexemes, nparams) ==
    LET items == Items(lexemes, Commas)
    IN  [i \in 1..Len(items) |-> ParseAssignment(items[i], nparams)]
ParseWhere(lexemes, nparams) ==
    LET items == Items(lexemes, Ands)
    IN  [i \in 1..Len(items) |-> ParsePredicate(items[i], nparams)]

AllOk(parsed) == \A i \in 1..Len(parsed) : parsed[i].ok
ParamsOf(parsed) == {parsed[i].param : i \in 1..Len(parsed)} \ {0}

\* does the row satisfy the predicate?  A comparison with NULL never does
Satisfies(row, pred, params) ==
    LET v == row[pred.col]
        w == IF pred.param > 0 THEN params[pred.param] ELSE Num(pred.literal)
    IN  CASE pred.cmp = "=" -> v # Null /\ w # Null /\ v = w
          [] pred.cmp = ">=" -> IsNum(v) /\ IsNum(w) /\ v.num >= w.num
          [] pred.cmp = "<=" -> IsNum(v) /\ IsNum(w) /\ v.num <= w.num
          [] pred.cmp = ">" -> IsNum(v) /\ IsNum(w) /\ v.num > w.num
          [] pred.cmp = "ILIKE" -> IsText(v) /\ IsText(w) /\ ILike(v.text, w.text)

Matching(rows, preds, params) ==
    {r \in rows : \A i \in 1..Len(preds) : Satisfies(r, preds[i], params)}

\* the row as the select or RETURNING list names it
Project(row, list) ==
    [n \in {list[i].as : i \in 1..Len(list)} |->
        row[list[CHOOSE i \in 1..Len(list) : list[i].as = n].col]]

RECURSIVE Perms(_)
Perms(S) ==
    IF S = {} THEN {<<>>}
    ELSE UNION {{<<x>> \o rest : rest \in Perms(S \ {x})} : x \in S}

\* the orders the store may return the rows in: ascending by the ORDER BY
\* column, any order among equals and when there is no ORDER BY
Orders(rows, orderBy) ==
    {seq \in Perms(rows) :
        orderBy = "" \/ \A i, j \in 1..Len(seq) :
                            i < j => ValueLeq(seq[i][orderBy], seq[j][orderBy])}

Statement(verb, table, list, columns, values, set, where, orderBy) ==
    [verb |-> verb, table |-> table, list |-> list, columns |-> columns,
     values |-> values, set |-> set, where |-> where, orderBy |-> orderBy]

Failed(db) == [err |-> TRUE, rows |-> <<>>, db |-> db]

\* db.query(statement, params) on the store db: the results it may give, each
\* with the store it leaves.  A statement that does not parse, names a column
\* the table lacks, or does not use exactly the parameters $1..$n it is given
\* fails and changes nothing.
Query(stmt, args, db) ==
    LET params == [i \in 1..Len(args) |-> AsParam(args[i])]
        n == Len(params)
        table == db[stmt.table]
        list == ParseList(stmt.list)
        values == ParseValues(stmt.values, n)
        set == ParseSet(stmt.set, n)
        where == IF stmt.where # <<>> /\ stmt.where[1] = "WHERE"
                 THEN ParseWhere(Tail(stmt.where), n)
                 ELSE <<>>
        whereOk == stmt.where = <<>> \/ (Len(where) > 0 /\ AllOk(where))
        colsOk ==
            /\ \A i \in 1..Len(list) : list[i].col \in Columns(stmt.table)
            /\ \A i \in 1..Len(set) : set[i].col \in Columns(stmt.table)
            /\ \A i \in 1..Len(where) : where[i].col \in Columns(stmt.table)
            /\ \A i \in 1..Len(stmt.columns) : stmt.columns[i] \in Columns(stmt.table)
            /\ stmt.orderBy \in Columns(stmt.table) \cup {""}
            /\ Len(values) = Len(stmt.columns)
        shapeOk ==
            /\ Len(list) > 0
            /\ stmt.verb = "UPDATE" => Len(set) > 0
            /\ stmt.verb = "INSERT" => Len(values) > 0
        used == ParamsOf(values) \cup ParamsOf(set) \cup ParamsOf(where)
        hit == Matching(table, where, params)
        Updated(r) ==
            [c \in Columns(stmt.table) |->
                IF \E i \in 1..Len(set) : set[i].col = c
                THEN params[set[CHOOSE i \in 1..Len(set) :
                                    set[i].col = c /\ \A j \in (i + 1)..Len(set) :
                                                          set[j].col # c].param]
                ELSE r[c]]
        Inserted ==
            [c \in Columns(stmt.table) |->
                IF \E i \in 1..Len(values) : stmt.columns[i] = c
                THEN params[values[CHOOSE i \in 1..Len(values) :
                                       stmt.columns[i] = c].param]
                ELSE IF stmt.table = "jobs" /\ c = "id" THEN Num(db.nextId)
                ELSE Null]
        Results(rows, after) ==
            {[err |-> FALSE, rows |-> [i \in 1..Len(seq) |-> Project(seq[i], list)],
              db |-> after] : seq \in Orders(rows, stmt.orderBy)}
    IN  IF ~(AllOk(list) /\ AllOk(values) /\ AllOk(set) /\ whereOk /\ colsOk /\ shapeOk)
           \/ used # 1..n
        THEN {Failed(db)}
        ELSE CASE stmt.verb = "SELECT" -> Results(hit, db)
               [] stmt.verb = "DELETE" ->
                    Results(hit, [db EXCEPT ![stmt.table] = table \ hit])
               [] stmt.verb = "UPDATE" ->
                    Results({Updated(r) : r \in hit},
                             [db EXCEPT ![stmt.table] =
                                 (table \ hit) \cup {Updated(r) : r \in hit}])
               [] stmt.verb = "INSERT" ->
                    IF stmt.table = "companies"
                       /\ \E r \in table : r.handle = Inserted.handle
                    THEN {Failed(db)}
                    ELSE Results({Inserted},
                                  [db EXCEPT ![stmt.table] = table \cup {Inserted},
                                             !.nextId = IF stmt.table = "jobs"
                                                        THEN @ + 1 ELSE @])

-----------------------------------------------------------------------------
(* helpers/sql.js *)

\* a builder that never looks the alias up
AliasOr_Ignored(map, colName) == colName

\* jsToSql[colName] || colName
AliasOr(map, colName) ==
    IF colName \in DOMAIN map /\ map[colName] # "" THEN map[colName] ELSE colName

\* a builder that numbers the placeholders from 0
ColAssignment_FromZero(map, colName, idx) ==
    <<"\"", AliasOr(map, colName), "\"", "=">> \o Placeholder(idx)

\* `"${jsToSql[colName] || colName}"=$${idx + 1}`, idx counted from 0
ColAssignment(map, colName, idx) ==
    <<"\"", AliasOr(map, colName), "\"", "=">> \o Placeholder(idx + 1)

\* a value as a template literal would write it into a text
AsString(v) ==
    IF IsText(v) THEN Flatten(v.text)
    ELSE IF IsNum(v) THEN ToString(v.num)
    ELSE IF v = Null THEN "null"
    ELSE "undefined"

\* a builder that writes the values into the fragment
sqlForPartialUpdate_Inlined(dataToUpdate, aliases) ==
    LET keys == ObjectKeys(dataToUpdate)
    IN  IF Len(keys) = 0
        THEN [threw |-> "BadRequestError", setCols |-> <<>>, values |-> <<>>]
        ELSE IF aliases = Undefined
        THEN [threw |-> "TypeError", setCols |-> <<>>, values |-> <<>>]
        ELSE LET cols == [i \in 1..Len(keys) |->
                             <<"\"", AliasOr(aliases.obj, keys[i]), "\"", "=",
                               AsString(dataToUpdate[i][2])>>]
             IN  [threw |-> "none",
                  setCols |-> Join(cols, ", "),
                  values |-> ObjectValues(dataToUpdate)]

\* a builder without the guard against empty data
sqlForPartialUpdate_NoGuard(dataToUpdate, aliases) ==
    LET keys == ObjectKeys(dataToUpdate)
    IN  IF Len(keys) > 0 /\ aliases = Undefined
        THEN [threw |-> "TypeError", setCols |-> <<>>, values |-> <<>>]
        ELSE LET cols == [i \in 1..Len(keys) |->
                             ColAssignment(aliases.obj, keys[i], i - 1)]
             IN  [threw |-> "none",
                  setCols |-> Join(cols, ", "),
                  values |-> ObjectValues(dataToUpdate)]

\* a builder that hands the values back in the opposite order
sqlForPartialUpdate_ReversedValues(dataToUpdate, aliases) ==
    LET keys == ObjectKeys(dataToUpdate)
        n == Len(keys)
    IN  IF n = 0
        THEN [threw |-> "BadRequestError", setCols |-> <<>>, values |-> <<>>]
        ELSE IF aliases = Undefined
        THEN [threw |-> "TypeError", setCols |-> <<>>, values |-> <<>>]
        ELSE LET cols == [i \in 1..n |-> ColAssignment(aliases.obj, keys[i], i - 1)]
             IN  [threw |-> "none",
                  setCols |-> Join(cols, ", "),
                  values |-> [i \in 1..n |-> ObjectValues(dataToUpdate)[n + 1 - i]]]

\* sqlForPartialUpdate(dataToUpdate, jsToSql); aliases is Undefined when the
\* caller passes no second argument, else [obj |-> the alias map]
sqlForPartialUpdate(dataToUpdate, aliases) ==
    LET keys == ObjectKeys(dataToUpdate)
    IN  IF Len(keys) = 0
        THEN [threw |-> "BadRequestError", setCols |-> <<>>, values |-> <<>>]
        ELSE IF aliases = Undefined
        THEN [threw |-> "TypeError", setCols |-> <<>>, values |-> <<>>]
        ELSE LET cols == [i \in 1..Len(keys) |->
                             ColAssignment(aliases.obj, keys[i], i - 1)]
             IN  [threw |-> "none",
                  setCols |-> Join(cols, ", "),
                  values |-> ObjectValues(dataToUpdate)]

-----------------------------------------------------------------------------
(* What a model method hands back: how it ended, what it returned, the     *)
(* queries it made, the store it leaves, and its sqlForPartialUpdate call  *)

NotCalled == [threw |-> "not called", setCols |-> <<>>, values |-> <<>>]
NoValue == [none |-> TRUE]

Threw(class, queries, db) ==
    [outcome |-> class, ret |-> NoValue, log |-> queries, db |-> db,
     jsToSql |-> Undefined, built |-> NotCalled]
Returned(value, queries, db) ==
    [outcome |-> "ok", ret |-> value, log |-> queries, db |-> db,
     jsToSql |-> Undefined, built |-> NotCalled]

DbQuery(stmt, args) == [stmt |-> stmt, args |-> args]

\* no parseBool call, no create in flight, no request
NoRequest == [route |-> "none"]
Quiet ==
    /\ input = Undefined /\ result = NoValue
    /\ procs = <<>>
    /\ users = {} /\ req = NoRequest

\* const { k } = obj
Get(obj, k) == IF HasProp(obj, k) THEN Prop(obj, k) ELSE Undefined

\* a create that never sees the conflicting record
IsDuplicate_Never(rows) == FALSE

\* if (duplicateCheck.rows[0])
IsDuplicate(rows) == rows # <<>>

\* a findAll that numbers every placeholder 1
NextPlaceholder_AlwaysFirst(queryValues) == Placeholder(1)

\* $${queryValues.length}, right after the push
NextPlaceholder(queryValues) == Placeholder(Len(queryValues))

\* a findAll that filters on equity whenever hasEquity is given
EquityWanted_WheneverGiven(hasEquity) == hasEquity # Undefined

\* if (hasEquity !== undefined && hasEquity !== false)
EquityWanted(hasEquity) == hasEquity # Undefined /\ hasEquity # Bool(FALSE)

-----------------------------------------------------------------------------
(* models/company.js *)

CompanySelectList ==
    <<"handle", ",", "name", ",", "description", ",",
      "num_employees", "AS", "\"", "numEmployees", "\"", ",",
      "logo_url", "AS", "\"", "logoUrl", "\"">>

\* the two queries of Company.create
CompanyDuplicateCheck(payload) ==
    DbQuery(Statement("SELECT", "companies", <<"handle">>, <<>>, <<>>, <<>>,
                      <<"WHERE", "handle", "=", "$", "1">>, ""),
            <<Get(payload, "handle")>>)
CompanyInsert(payload) ==
    DbQuery(Statement("INSERT", "companies", CompanySelectList,
                      <<"handle", "name", "description", "num_employees", "logo_url">>,
                      <<"$", "1", ",", "$", "2", ",", "$", "3", ",",
                        "$", "4", ",", "$", "5">>,
                      <<>>, <<>>, ""),
            <<Get(payload, "handle"), Get(payload, "name"),
              Get(payload, "description"), Get(payload, "numEmployees"),
              Get(payload, "logoUrl")>>)

CompanyCreate(payload, db) ==
    LET duplicateCheck == CompanyDuplicateCheck(payload)
        insert == CompanyInsert(payload)
    IN  UNION {
            IF r1.err THEN {Threw("DatabaseError", <<duplicateCheck>>, r1.db)}
            ELSE IF IsDuplicate(r1.rows)
            THEN {Threw("BadRequestError", <<duplicateCheck>>, r1.db)}
            ELSE {IF r2.err
                  THEN Threw("DatabaseError", <<duplicateCheck, insert>>, r2.db)
                  ELSE Returned([row |-> r2.rows[1]], <<duplicateCheck, insert>>, r2.db)
                  : r2 \in Query(insert.stmt, insert.args, r1.db)}
            : r1 \in Query(duplicateCheck.stmt, duplicateCheck.args, db)}

CompanyFindAll(f, db) ==
    LET minEmployees == Get(f, "minEmployees")
        maxEmployees == Get(f, "maxEmployees")
        nameLike == Get(f, "nameLike")
        values1 == IF minEmployees # Undefined THEN <<minEmployees>> ELSE <<>>
        where1 == IF minEmployees # Undefined
                  THEN <<<<"num_employees", ">=">> \o NextPlaceholder(values1)>>
                  ELSE <<>>
        values2 == IF maxEmployees # Undefined
                   THEN Append(values1, maxEmployees) ELSE values1
        where2 == IF maxEmployees # Undefined
                  THEN Append(where1,
                              <<"num_employees", "<=">> \o NextPlaceholder(values2))
                  ELSE where1
        queryValues == IF nameLike # Undefined
                       THEN Append(values2, Text(<<"%">> \o nameLike.text \o <<"%">>))
                       ELSE values2
        whereExpressions ==
            IF nameLike # Undefined
            THEN Append(where2, <<"name", "ILIKE">> \o NextPlaceholder(queryValues))
            ELSE where2
        where == IF Len(whereExpressions) > 0
                 THEN <<"WHERE">> \o Join(whereExpressions, " AND ")
                 ELSE <<>>
        query == DbQuery(Statement("SELECT", "companies", CompanySelectList,
                                <<>>, <<>>, <<>>, where, "name"),
                      queryValues)
    IN  {IF r.err THEN Threw("DatabaseError", <<query>>, r.db)
         ELSE Returned([rows |-> r.rows], <<query>>, r.db)
         : r \in Query(query.stmt, query.args, db)}

\* a job listing in whatever order the store gives
CompanyJobsOrderBy_None == ""

\* ORDER BY id
CompanyJobsOrderBy == "id"

CompanyGet(handle, db) ==
    LET companyQuery ==
            DbQuery(Statement("SELECT", "companies", CompanySelectList, <<>>, <<>>, <<>>,
                           <<"WHERE", "handle", "=", "$", "1">>, ""),
                 <<handle>>)
        jobsQuery ==
            DbQuery(Statement("SELECT", "jobs",
                           <<"id", ",", "title", ",", "salary", ",", "equity">>,
                           <<>>, <<>>, <<>>,
                           <<"WHERE", "company_handle", "=", "$", "1">>,
                           CompanyJobsOrderBy),
                 <<handle>>)
        WithJobs(company, rows) ==
            [n \in DOMAIN company \cup {"jobs"} |->
                IF n = "jobs" THEN rows ELSE company[n]]
    IN  UNION {
            IF r1.err THEN {Threw("DatabaseError", <<companyQuery>>, r1.db)}
            ELSE IF r1.rows = <<>>
            THEN {Threw("NotFoundError", <<companyQuery>>, r1.db)}
            ELSE {IF r2.err
                  THEN Threw("DatabaseError", <<companyQuery, jobsQuery>>, r2.db)
                  ELSE Returned([row |-> WithJobs(r1.rows[1], r2.rows)],
                                <<companyQuery, jobsQuery>>, r2.db)
                  : r2 \in Query(jobsQuery.stmt, jobsQuery.args, r1.db)}
            : r1 \in Query(companyQuery.stmt, companyQuery.args, db)}

CompanyAliases ==
    [obj |-> [numEmployees |-> "num_employees", logoUrl |-> "logo_url"]]

CompanyUpdate(handle, d, db) ==
    LET sql == sqlForPartialUpdate(d, CompanyAliases)
        handleVarIdx == Placeholder(Len(sql.values) + 1)
        query == DbQuery(Statement("UPDATE", "companies", CompanySelectList, <<>>, <<>>,
                                sql.setCols,
                                <<"WHERE", "handle", "=">> \o handleVarIdx, ""),
                      sql.values \o <<handle>>)
        Built(r) == [r EXCEPT !.jsToSql = CompanyAliases, !.built = sql]
    IN  IF sql.threw # "none" THEN {Built(Threw(sql.threw, <<>>, db))}
        ELSE {Built(IF r.err THEN Threw("DatabaseError", <<query>>, r.db)
                    ELSE IF r.rows = <<>> THEN Threw("NotFoundError", <<query>>, r.db)
                    ELSE Returned([row |-> r.rows[1]], <<query>>, r.db))
              : r \in Query(query.stmt, query.args, db)}

CompanyRemove(handle, db) ==
    LET query == DbQuery(Statement("DELETE", "companies", <<"handle">>, <<>>, <<>>, <<>>,
                                <<"WHERE", "handle", "=", "$", "1">>, ""),
                      <<handle>>)
    IN  {IF r.err THEN Threw("DatabaseError", <<query>>, r.db)
         ELSE IF r.rows = <<>> THEN Threw("NotFoundError", <<query>>, r.db)
         ELSE Returned(NoValue, <<query>>, r.db)
         : r \in Query(query.stmt, query.args, db)}

-----------------------------------------------------------------------------
(* models/job.js *)

JobSelectList ==
    <<"id", ",", "title", ",", "salary", ",", "equity", ",", "company_handle">>

\* the two queries of Job.create
JobDuplicateCheck(payload) ==
    DbQuery(Statement("SELECT", "jobs", <<"title", ",", "company_handle">>,
                      <<>>, <<>>, <<>>,
                      <<"WHERE", "title", "=", "$", "1", "AND",
                        "company_handle", "=", "$", "2">>, ""),
            <<Get(payload, "title"), Get(payload, "company_handle")>>)
\* the statement's text ends: RETURNING id, ..., company_handle"
JobInsert(payload) ==
    DbQuery(Statement("INSERT", "jobs", JobSelectList \o <<"\"">>,
                      <<"title", "salary", "equity", "company_handle">>,
                      <<"$", "1", ",", "$", "2", ",", "$", "3", ",", "$", "4">>,
                      <<>>, <<>>, ""),
            <<Get(payload, "title"), Get(payload, "salary"),
              Get(payload, "equity"), Get(payload, "company_handle")>>)

JobCreate(payload, db) ==
    LET duplicateCheck == JobDuplicateCheck(payload)
        insert == JobInsert(payload)
    IN  UNION {
            IF r1.err THEN {Threw("DatabaseError", <<duplicateCheck>>, r1.db)}
            ELSE IF IsDuplicate(r1.rows)
            THEN {Threw("BadRequestError", <<duplicateCheck>>, r1.db)}
            ELSE {IF r2.err
                  THEN Threw("DatabaseError", <<duplicateCheck, insert>>, r2.db)
                  ELSE Returned([row |-> r2.rows[1]], <<duplicateCheck, insert>>, r2.db)
                  : r2 \in Query(insert.stmt, insert.args, r1.db)}
            : r1 \in Query(duplicateCheck.stmt, duplicateCheck.args, db)}

JobFindAll(f, db) ==
    LET minSalary == Get(f, "minSalary")
        hasEquity == Get(f, "hasEquity")
        titleLike == Get(f, "titleLike")
        values1 == IF minSalary # Undefined THEN <<minSalary>> ELSE <<>>
        where1 == IF minSalary # Undefined
                  THEN <<<<"salary", ">=">> \o NextPlaceholder(values1)>>
                  ELSE <<>>
        where2 == IF EquityWanted(hasEquity)
                  THEN Append(where1, <<"equity", ">", "0">>)
                  ELSE where1
        queryValues == IF titleLike # Undefined
                       THEN Append(values1, Text(<<"%">> \o titleLike.text \o <<"%">>))
                       ELSE values1
        whereExpressions ==
            IF titleLike # Undefined
            THEN Append(where2, <<"title", "ILIKE">> \o NextPlaceholder(queryValues))
            ELSE where2
        where == IF Len(whereExpressions) > 0
                 THEN <<"WHERE">> \o Join(whereExpressions, " AND ")
                 ELSE <<>>
        query == DbQuery(Statement("SELECT", "jobs", JobSelectList,
                                   <<>>, <<>>, <<>>, where, "title"),
                         queryValues)
    IN  {IF r.err THEN Threw("DatabaseError", <<query>>, r.db)
         ELSE Returned([rows |-> r.rows], <<query>>, r.db)
         : r \in Query(query.stmt, query.args, db)}

JobGet(id, db) ==
    LET query == DbQuery(Statement("SELECT", "jobs", JobSelectList, <<>>, <<>>, <<>>,
                                   <<"WHERE", "id", "=", "$", "1">>, ""),
                         <<id>>)
    IN  {IF r.err THEN Threw("DatabaseError", <<query>>, r.db)
         ELSE IF r.rows = <<>> THEN Threw("NotFoundError", <<query>>, r.db)
         ELSE Returned([row |-> r.rows[1]], <<query>>, r.db)
         : r \in Query(query.stmt, query.args, db)}

\* an update that hands the builder an alias map with no entries
JobAliases_EmptyMap == [obj |-> <<>>]

\* Job.update calls sqlForPartialUpdate(data): no alias map
JobAliases == Undefined

JobUpdate(id, d, db) ==
    LET sql == sqlForPartialUpdate(d, JobAliases)
        idVarIdx == Placeholder(Len(sql.values) + 1)
        query == DbQuery(Statement("UPDATE", "jobs", JobSelectList, <<>>, <<>>,
                                   sql.setCols,
                                   <<"WHERE", "id", "=">> \o idVarIdx, ""),
                         sql.values \o <<id>>)
        Built(r) == [r EXCEPT !.jsToSql = JobAliases, !.built = sql]
    IN  IF sql.threw # "none" THEN {Built(Threw(sql.threw, <<>>, db))}
        ELSE {Built(IF r.err THEN Threw("DatabaseError", <<query>>, r.db)
                    ELSE IF r.rows = <<>> THEN Threw("NotFoundError", <<query>>, r.db)
                    ELSE Returned([row |-> r.rows[1]], <<query>>, r.db))
              : r \in Query(query.stmt, query.args, db)}

\* a remove that does not look at what was deleted
JobRemove_NoThrow(id, db) ==
    LET query == DbQuery(Statement("DELETE", "jobs", <<"id">>, <<>>, <<>>, <<>>,
                                   <<"WHERE", "id", "=", "$", "1">>, ""),
                         <<id>>)
    IN  {IF r.err THEN Threw("DatabaseError", <<query>>, r.db)
         ELSE Returned(NoValue, <<query>>, r.db)
         : r \in Query(query.stmt, query.args, db)}

JobRemove(id, db) ==
    LET query == DbQuery(Statement("DELETE", "jobs", <<"id">>, <<>>, <<>>, <<>>,
                                   <<"WHERE", "id", "=", "$", "1">>, ""),
                         <<id>>)
    IN  {IF r.err THEN Threw("DatabaseError", <<query>>, r.db)
         ELSE IF r.rows = <<>> THEN Threw("NotFoundError", <<query>>, r.db)
         ELSE Returned(NoValue, <<query>>, r.db)
         : r \in Query(query.stmt, query.args, db)}

-----------------------------------------------------------------------------
(* The calls the model makes and the stores it starts from *)

Chars(str) ==
    CASE str = "c1" -> <<"c", "1">>
      [] str = "c2" -> <<"c", "2">>
      [] str = "C1" -> <<"C", "1">>
      [] str = "c_2" -> <<"c", "_", "2">>
      [] str = "J1" -> <<"J", "1">>
      [] str = "j2" -> <<"j", "2">>
      [] str = "d" -> <<"d">>
      [] str = "u" -> <<"u">>
      [] str = "c" -> <<"c">>
      [] str = "j" -> <<"j">>
      [] str = "_" -> <<"_">>
      [] str = "1" -> <<"1">>
Str(str) == Text(Chars(str))

Handles == {Str("c1"), Str("c2")}
Ids == {Num(1), Num(2), Num(3)}

\* values an update may give each field
CompanyFields ==
    [name |-> {Str("C1"), Str("c_2")},
     description |-> {Str("d")},
     numEmployees |-> {Num(1), Num(2)},
     logoUrl |-> {Null}]
JobFields ==
    [title |-> {Str("j2")},
     salary |-> {Null},
     equity |-> {Num(0)},
     company_handle |-> {Str("c2")}]

\* payloads of create: every field given
CompanyPayloads ==
    {<<<<"handle", h>>, <<"name", n>>, <<"description", Str("d")>>,
       <<"numEmployees", e>>, <<"logoUrl", Str("u")>>>>
     : h \in Handles, n \in CompanyFields.name, e \in CompanyFields.numEmployees}
JobPayloads ==
    {<<<<"title", t>>, <<"salary", Num(1)>>, <<"equity", q>>, <<"company_handle", h>>>>
     : t \in {Str("J1"), Str("j2")}, q \in {Num(0), Num(1)}, h \in Handles}

\* data of update: at most MaxKeys of the fields the method documents
CompanyData == ObjectsOver(DOMAIN CompanyFields, CompanyFields, MaxKeys)
JobData == ObjectsOver(DOMAIN JobFields, JobFields, MaxKeys)

\* filters of findAll: each recognized key present or absent
Optional(k, V) == {<<>>} \cup {<<<<k, v>>>> : v \in V}
CompanyFilters ==
    {a \o b \o c : a \in Optional("minEmployees", {Num(2)}),
                   b \in Optional("maxEmployees", {Num(1)}),
                   c \in Optional("nameLike", {Str("c"), Str("_")})}
JobFilters ==
    {a \o b \o c : a \in Optional("minSalary", {Num(1)}),
                   b \in Optional("hasEquity", {Bool(TRUE), Bool(FALSE), Null}),
                   c \in Optional("titleLike", {Str("j")})}

CompanyRow(h, n, d, e, u) ==
    [handle |-> h, name |-> n, description |-> d, num_employees |-> e, logo_url |-> u]
JobRow(id, t, s, q, h) ==
    [id |-> id, title |-> t, salary |-> s, equity |-> q, company_handle |-> h]

\* rows the store may hold when the program starts
SeedCompanies ==
    {CompanyRow(Str("c1"), Str("C1"), Str("d"), Num(1), Str("u")),
     CompanyRow(Str("c2"), Str("c_2"), Str("d"), Num(2), Null)}
SeedJobs ==
    {JobRow(Num(1), Str("J1"), Num(1), Num(1), Str("c1")),
     JobRow(Num(2), Str("j2"), Null, Num(0), Str("c1")),
     JobRow(Num(3), Str("J1"), Num(1), Num(0), Str("c2"))}

DB == [companies |-> companies, jobs |-> jobs, nextId |-> nextId]

Init ==
    /\ companies \in SUBSET SeedCompanies
    /\ jobs \in SUBSET SeedJobs
    /\ nextId = Cardinality(SeedJobs) + 1
    /\ op = "none" /\ key = Null /\ data = <<>> /\ filters = <<>>
    /\ outcome = "none" /\ ret = NoValue /\ log = <<>>
    /\ companies0 = companies /\ jobs0 = jobs
    /\ jsToSql = Undefined /\ built = NotCalled
    /\ Quiet

\* one call of a model method, from its way in to its return or throw
Invoke(method, k, d, f, results) ==
    \E r \in results :
        /\ op' = method /\ key' = k /\ data' = d /\ filters' = f
        /\ outcome' = r.outcome /\ ret' = r.ret /\ log' = r.log
        /\ companies' = r.db.companies /\ jobs' = r.db.jobs /\ nextId' = r.db.nextId
        /\ companies0' = companies /\ jobs0' = jobs
        /\ jsToSql' = r.jsToSql /\ built' = r.built
        /\ UNCHANGED <<boolVars, procs, webVars>>

\* the methods run one at a time, the next once the caller has the result
Idle == op = "none"

DoCompanyCreate ==
    Idle /\ \E p \in CompanyPayloads :
        Invoke("Company.create", Get(p, "handle"), p, <<>>, CompanyCreate(p, DB))
DoCompanyFindAll ==
    Idle /\ \E f \in CompanyFilters :
        Invoke("Company.findAll", Null, <<>>, f, CompanyFindAll(f, DB))
DoCompanyGet ==
    Idle /\ \E h \in Handles : Invoke("Company.get", h, <<>>, <<>>, CompanyGet(h, DB))
DoCompanyUpdate ==
    Idle /\ \E h \in Handles, d \in CompanyData :
        Invoke("Company.update", h, d, <<>>, CompanyUpdate(h, d, DB))
DoCompanyRemove ==
    Idle /\ \E h \in Handles : Invoke("Company.remove", h, <<>>, <<>>, CompanyRemove(h, DB))

DoJobCreate ==
    Idle /\ \E p \in JobPayloads : Invoke("Job.create", Null, p, <<>>, JobCreate(p, DB))
DoJobFindAll ==
    Idle /\ \E f \in JobFilters : Invoke("Job.findAll", Null, <<>>, f, JobFindAll(f, DB))
DoJobGet ==
    Idle /\ \E id \in Ids : Invoke("Job.get", id, <<>>, <<>>, JobGet(id, DB))
DoJobUpdate ==
    Idle /\ \E id \in Ids, d \in JobData :
        Invoke("Job.update", id, d, <<>>, JobUpdate(id, d, DB))
DoJobRemove ==
    Idle /\ \E id \in Ids : Invoke("Job.remove", id, <<>>, <<>>, JobRemove(id, DB))

\* the caller takes the result (the route responds or passes the error on)
Respond ==
    /\ op # "none"
    /\ op' = "none" /\ key' = Null /\ data' = <<>> /\ filters' = <<>>
    /\ outcome' = "none" /\ ret' = NoValue /\ log' = <<>>
    /\ companies0' = companies /\ jobs0' = jobs
    /\ jsToSql' = Undefined /\ built' = NotCalled
    /\ UNCHANGED <<storeVars, boolVars, procs, webVars>>

Next ==
    \/ DoCompanyCreate
    \/ DoCompanyFindAll
    \/ DoCompanyGet
    \/ DoCompanyUpdate
    \/ DoCompanyRemove
    \/ DoJobCreate
    \/ DoJobFindAll
    \/ DoJobGet
    \/ DoJobUpdate
    \/ DoJobRemove
    \/ Respond

Spec == Init /\ [][Next]_vars

-----------------------------------------------------------------------------
(* The builder on its own: one call per input *)

SqlKeys == {"firstName", "age", "name"}
SqlColumns == {"first_name", "col"}
SqlValues == {Text(<<"A", "l", "i", "y", "a">>), Num(32), Null}
SqlObjects == ObjectsOver(SqlKeys, [k \in SqlKeys |-> SqlValues], MaxLen)
SqlAliasMaps == {Undefined} \cup
    {[obj |-> m] : m \in UNION {[D -> SqlColumns] : D \in SUBSET SqlKeys}}

SqlInit ==
    /\ companies = {} /\ jobs = {} /\ nextId = 1
    /\ op = "none" /\ key = Null /\ filters = <<>>
    /\ outcome = "none" /\ ret = NoValue /\ log = <<>>
    /\ companies0 = {} /\ jobs0 = {}
    /\ data \in SqlObjects
    /\ jsToSql \in SqlAliasMaps
    /\ built = NotCalled
    /\ Quiet

CallSqlForPartialUpdate ==
    /\ built = NotCalled
    /\ built' = sqlForPartialUpdate(data, jsToSql)
    /\ UNCHANGED <<storeVars, callVars, data, jsToSql, boolVars, procs, webVars>>

SqlNext == CallSqlForPartialUpdate

SpecSql == SqlInit /\ [][SqlNext]_vars

-----------------------------------------------------------------------------
(* Claims about sqlForPartialUpdate, checked under SpecSql *)

\* the SET fragment as the store reads it, given n parameters
ReadSet(setCols, n) == ParseSet(setCols, n)

DocExampleData ==
    <<<<"firstName", Text(<<"A", "l", "i", "y", "a">>)>>, <<"age", Num(32)>>>>
DocExampleAliases == [obj |-> [firstName |-> "first_name"]]

\* C1: for a non-empty dataToUpdate (and an alias map), setCols holds exactly
\* one assignment per key, in key order, joined by ", "; the N-th carries
\* placeholder $N and no other number; values has one entry per placeholder
\* and values[N] (counted from 1) is the value of the N-th key.
C1_PlaceholdersMatchValues ==
    (built # NotCalled /\ data # <<>> /\ jsToSql # Undefined) =>
        LET read == ReadSet(built.setCols, Len(built.values))
        IN  /\ built.threw = "none"
            /\ Len(read) = Len(data)
            /\ Len(built.values) = Len(data)
            /\ Len(built.setCols) = 7 * Len(data) - 1
            /\ \A i \in 1..Len(data) :
                /\ read[i].ok
                /\ read[i].param = i
                /\ read[i].col \in {data[i][1]} \cup SqlColumns
                /\ built.values[i] = data[i][2]
                /\ i > 1 => built.setCols[7 * (i - 1)] = ", "
            /\ (data = DocExampleData /\ jsToSql = DocExampleAliases) =>
                   /\ Flatten(built.setCols) = "\"first_name\"=$1, \"age\"=$2"
                   /\ built.values = <<Text(<<"A", "l", "i", "y", "a">>), Num(32)>>

C1_Witness ==
    /\ built.threw = "none"
    /\ Len(data) = MaxLen
    /\ Len(built.values) = MaxLen
    /\ data[1][2] # data[2][2]

\* C3: the column of each assignment is the alias map's entry for the key
\* when the map has one, and the key itself when it has none; whatever the
\* map: empty, partial or complete.
C3_AliasOrKey ==
    (built # NotCalled /\ built.threw = "none") =>
        LET read == ReadSet(built.setCols, Len(built.values))
            map == jsToSql.obj
        IN  /\ Len(read) = Len(data)
            /\ \A i \in 1..Len(data) :
                   read[i].col = IF data[i][1] \in DOMAIN map
                                 THEN map[data[i][1]]
                                 ELSE data[i][1]
            /\ (data = DocExampleData /\ jsToSql = DocExampleAliases) =>
                   <<read[1].col, read[2].col>> = <<"first_name", "age">>

C3_Witness ==
    /\ built.threw = "none"
    /\ data = DocExampleData
    /\ jsToSql = DocExampleAliases
    /\ built.setCols[2] = "first_name"
    /\ built.setCols[9] = "age"

-----------------------------------------------------------------------------
(* Claims about Company and Job, checked under Spec.  They read the call   *)
(* that has just returned: its arguments, outcome, result and queries, and *)
(* the tables before (companies0, jobs0) and after it.                     *)

OnCompanies ==
    op \in {"Company.create", "Company.findAll", "Company.get",
            "Company.update", "Company.remove"}
IsCreate == op \in {"Company.create", "Job.create"}
IsGet == op \in {"Company.get", "Job.get"}
IsUpdate == op \in {"Company.update", "Job.update"}
IsRemove == op \in {"Company.remove", "Job.remove"}

TableBefore == IF OnCompanies THEN companies0 ELSE jobs0
TableAfter == IF OnCompanies THEN companies ELSE jobs
KeyColumn == IF OnCompanies THEN "handle" ELSE "id"
Keyed(table, k) == {r \in table : r[KeyColumn] = k}
StoreUnchanged == companies = companies0 /\ jobs = jobs0

\* a row as the methods hand it back
CompanyView(r) ==
    [handle |-> r.handle, name |-> r.name, description |-> r.description,
     numEmployees |-> r.num_employees, logoUrl |-> r.logo_url]
JobView(r) == r
View(r) == IF OnCompanies THEN CompanyView(r) ELSE JobView(r)

\* the column that stores a field
ColumnOf(field) ==
    CASE field = "numEmployees" -> "num_employees"
      [] field = "logoUrl" -> "logo_url"
      [] OTHER -> field

\* the rows a create with this payload conflicts with
Conflicts(payload, table) ==
    IF OnCompanies
    THEN {r \in table : r.handle = Get(payload, "handle")}
    ELSE {r \in table : /\ r.title = Get(payload, "title")
                        /\ r.company_handle = Get(payload, "company_handle")}

AgainCreate == IF OnCompanies THEN CompanyCreate(data, DB) ELSE JobCreate(data, DB)
AgainGet(k) == IF OnCompanies THEN CompanyGet(k, DB) ELSE JobGet(k, DB)
AgainRemove(k) == IF OnCompanies THEN CompanyRemove(k, DB) ELSE JobRemove(k, DB)

\* C2: with an empty data object sqlForPartialUpdate throws BadRequestError
\* and gives no fragment, so Company.update and Job.update throw
\* BadRequestError, make no query and leave the store as it was, whether
\* the key exists or not.
C2_EmptyDataIsBadRequest ==
    (IsUpdate /\ data = <<>>) =>
        /\ built.threw = "BadRequestError"
        /\ built.setCols = <<>> /\ built.values = <<>>
        /\ outcome = "BadRequestError"
        /\ ret = NoValue
        /\ log = <<>>
        /\ StoreUnchanged

C2_Witness ==
    /\ op = "Job.update" /\ data = <<>>
    /\ Keyed(jobs0, key) # {}
    /\ outcome = "BadRequestError"

\* C4 (as claimed): an update with non-empty data throws NotFoundError and
\* changes nothing when no row has the key, and otherwise succeeds and
\* returns the updated row; for Company.update and for Job.update.
C4_UpdateNotFoundOrUpdated ==
    (IsUpdate /\ data # <<>>) =>
        IF Keyed(TableBefore, key) = {}
        THEN outcome = "NotFoundError" /\ StoreUnchanged
        ELSE /\ outcome = "ok"
             /\ \E r \in Keyed(TableAfter, key) : ret = [row |-> View(r)]

C6_CreateInsertsAndReturns ==
    (IsCreate /\ Conflicts(data, TableBefore) = {}) =>
        /\ outcome = "ok"
        /\ \E new \in TableAfter \ TableBefore :
               /\ TableAfter = TableBefore \cup {new}
               /\ ret = [row |-> View(new)]
               /\ \A i \in 1..Len(data) : new[ColumnOf(data[i][1])] = data[i][2]
               /\ ~OnCompanies => IsNum(new.id) /\ Keyed(TableBefore, new.id) = {}
               /\ \A got \in AgainGet(new[KeyColumn]) :
                      /\ got.outcome = "ok"
                      /\ \A i \in 1..Len(data) : got.ret.row[data[i][1]] = data[i][2]
        /\ (IF OnCompanies THEN jobs = jobs0 ELSE companies = companies0)

\* C7: get throws NotFoundError when no row has the key (Company.get then
\* makes no second query) and otherwise returns that row; Company.get adds
\* as jobs exactly the jobs of that company, by ascending id, none if none.
C7_GetByKey ==
    IsGet =>
        IF Keyed(TableBefore, key) = {}
        THEN outcome = "NotFoundError" /\ Len(log) = 1 /\ StoreUnchanged
        ELSE /\ outcome = "ok"
             /\ StoreUnchanged
             /\ \E r \in Keyed(TableBefore, key) :
                    \A f \in DOMAIN View(r) : ret.row[f] = View(r)[f]
             /\ OnCompanies =>
                    LET found == ret.row.jobs
                        theirs == {j \in jobs0 : j.company_handle = key}
                    IN  /\ DOMAIN ret.row = DOMAIN CompanyView(CHOOSE r \in companies0 : TRUE)
                                                \cup {"jobs"}
                        /\ Len(found) = Cardinality(theirs)
                        /\ {found[i] : i \in 1..Len(found)} =
                               {[id |-> j.id, title |-> j.title,
                                 salary |-> j.salary, equity |-> j.equity] : j \in theirs}
                        /\ \A i, j \in 1..Len(found) :
                               i < j => found[i].id.num < found[j].id.num
             /\ ~OnCompanies => DOMAIN ret.row = DOMAIN JobView(CHOOSE r \in jobs0 : TRUE)

C7_Witness ==
    /\ op = "Company.get" /\ outcome = "ok"
    /\ Len(ret.row.jobs) = 2
    /\ \E j \in jobs0 : j.company_handle # key

C9_UpdateIsPartial ==
    (IsUpdate /\ outcome = "ok") =>
        \E old \in Keyed(TableBefore, key), new \in Keyed(TableAfter, key) :
            /\ Keyed(TableBefore, key) = {old} /\ Keyed(TableAfter, key) = {new}
            /\ \A i \in 1..Len(data) : new[ColumnOf(data[i][1])] = data[i][2]
            /\ \A c \in DOMAIN old :
                   c \notin {ColumnOf(data[i][1]) : i \in 1..Len(data)} => new[c] = old[c]
            /\ new[KeyColumn] = old[KeyColumn]
            /\ Cardinality(TableAfter) = Cardinality(TableBefore)
            /\ TableAfter \ {new} = TableBefore \ {old}
            /\ ret = [row |-> View(new)]
            /\ (IF OnCompanies THEN jobs = jobs0 ELSE companies = companies0)

C9_Witness ==
    /\ op = "Company.update" /\ outcome = "ok"
    /\ Len(data) = 2
    /\ \E i \in 1..2 : data[i] = <<"logoUrl", Null>>
    /\ \E i \in 1..2 : data[i][1] = "numEmployees"
    /\ \E old \in Keyed(companies0, key), new \in Keyed(companies, key) :
           /\ old.logo_url # Null
           /\ old.num_employees # new.num_employees
           /\ new.name = old.name
    /\ Cardinality(companies) = 2

\* does the text hold the substring, letter case aside?
Contains(s, sub) ==
    \E k \in 0..(Len(s) - Len(sub)) :
        SubSeq(LowerText(s), k + 1, k + Len(sub)) = LowerText(sub)

AtLeast(v, bound) == IsNum(v) /\ v.num >= bound.num
AtMost(v, bound) == IsNum(v) /\ v.num <= bound.num
Holds(v, sub) == IsText(v) /\ Contains(v.text, sub.text)

CompanyWanted(f, r) ==
    /\ HasProp(f, "minEmployees") => AtLeast(r.num_employees, Prop(f, "minEmployees"))
    /\ HasProp(f, "maxEmployees") => AtMost(r.num_employees, Prop(f, "maxEmployees"))
    /\ HasProp(f, "nameLike") => Holds(r.name, Prop(f, "nameLike"))
JobWanted(f, r) ==
    /\ HasProp(f, "minSalary") => AtLeast(r.salary, Prop(f, "minSalary"))
    /\ HasProp(f, "titleLike") => Holds(r.title, Prop(f, "titleLike"))

\* C10 (as claimed): findAll returns exactly the rows that satisfy every
\* filter present (bounds inclusive, nameLike and titleLike as substrings,
\* letter case aside), ascending by name or title, and with no filter the
\* query has no WHERE clause and every row is returned.
C10_FindAllFilters ==
    /\ op = "Company.findAll" =>
           LET wanted == {CompanyView(r) : r \in {x \in companies0 : CompanyWanted(filters, x)}}
           IN  /\ outcome = "ok"
               /\ {ret.rows[i] : i \in 1..Len(ret.rows)} = wanted
               /\ Len(ret.rows) = Cardinality(wanted)
               /\ \A i, j \in 1..Len(ret.rows) :
                      i < j => ValueLeq(ret.rows[i].name, ret.rows[j].name)
               /\ filters = <<>> => log[1].stmt.where = <<>>
    /\ (op = "Job.findAll" /\ ~HasProp(filters, "hasEquity")) =>
           LET wanted == {JobView(r) : r \in {x \in jobs0 : JobWanted(filters, x)}}
           IN  /\ outcome = "ok"
               /\ {ret.rows[i] : i \in 1..Len(ret.rows)} = wanted
               /\ Len(ret.rows) = Cardinality(wanted)
               /\ \A i, j \in 1..Len(ret.rows) :
                      i < j => ValueLeq(ret.rows[i].title, ret.rows[j].title)
               /\ filters = <<>> => log[1].stmt.where = <<>>

-----------------------------------------------------------------------------
(* Claims about the query text of findAll and update *)

IsFindAll == op \in {"Company.findAll", "Job.findAll"}

\* the WHERE clause of the call's first query, as the store reads it
ReadWhere ==
    IF log[1].stmt.where = <<>> THEN <<>>
    ELSE ParseWhere(Tail(log[1].stmt.where), Len(log[1].args))

\* the placeholder numbers of a clause, in the order of the text
RECURSIVE NumbersIn(_)
NumbersIn(parsed) ==
    IF parsed = <<>> THEN <<>>
    ELSE (IF Head(parsed).param = 0 THEN <<>> ELSE <<Head(parsed).param>>)
             \o NumbersIn(Tail(parsed))

\* the filter keys that bind a value, in the order the method looks at them
ValueFilters ==
    IF OnCompanies THEN <<"minEmployees", "maxEmployees", "nameLike">>
    ELSE <<"minSalary", "titleLike">>
Carrying == SelectSeq(ValueFilters, LAMBDA k : HasProp(filters, k))

\* the predicate and the bound value a filter key stands for
PredicateOf(k) ==
    CASE k = "minEmployees" -> <<"num_employees", ">=">>
      [] k = "maxEmployees" -> <<"num_employees", "<=">>
      [] k = "nameLike" -> <<"name", "ILIKE">>
      [] k = "minSalary" -> <<"salary", ">=">>
      [] k = "titleLike" -> <<"title", "ILIKE">>
BoundTo(k) ==
    IF k \in {"nameLike", "titleLike"}
    THEN Text(<<"%">> \o Prop(filters, k).text \o <<"%">>)
    ELSE Prop(filters, k)

\* C11 (as claimed): in findAll every present filter key adds one predicate
\* and one value, so the query has as many predicates as keys, as many
\* arguments as keys, and the placeholders $1..$n in increasing order.
C11_EveryKeyOnePredicateOneValue ==
    IsFindAll =>
        /\ Len(ReadWhere) = Len(filters)
        /\ Len(log[1].args) = Len(filters)
        /\ NumbersIn(ReadWhere) = [i \in 1..Len(log[1].args) |-> i]

\* C11: in findAll every present key other than hasEquity adds one predicate
\* and one value, the predicate's placeholder being the number of values
\* pushed so far; hasEquity adds at most the predicate equity > 0, with no
\* placeholder and no value.  The placeholders of the query are exactly
\* $1..$n in increasing order, n the number of arguments given to the store,
\* each bound to its own filter's value, and the store accepts the query.
C11_PlaceholdersAreOneToN ==
    IsFindAll =>
        LET args == log[1].args
            n == Len(args)
            preds == ReadWhere
            bound == SelectSeq(preds, LAMBDA p : p.param # 0)
            free == SelectSeq(preds, LAMBDA p : p.param = 0)
        IN  /\ Len(log) = 1 /\ outcome = "ok"
            /\ AllOk(preds)
            /\ n = Len(Carrying)
            /\ NumbersIn(preds) = [i \in 1..n |-> i]
            /\ \A i \in 1..n :
                   /\ <<bound[i].col, bound[i].cmp>> = PredicateOf(Carrying[i])
                   /\ args[i] = BoundTo(Carrying[i])
            /\ Len(free) <= 1
            /\ ~HasProp(filters, "hasEquity") => free = <<>>
            /\ \A i \in 1..Len(free) :
                   <<free[i].col, free[i].cmp, free[i].literal>> = <<"equity", ">", 0>>
            /\ preds = <<>> <=> log[1].stmt.where = <<>>

C11_Witness ==
    /\ op = "Job.findAll" /\ outcome = "ok"
    /\ Len(filters) = 3
    /\ HasProp(filters, "hasEquity")
    /\ Prop(filters, "hasEquity") = Bool(TRUE)
    /\ Len(log[1].args) = 2
    /\ Len(ReadWhere) = 3

\* the store as the call found it (findAll changes nothing)
DB0 == [companies |-> companies0, jobs |-> jobs0, nextId |-> nextId]

\* the filters without one key
Without(f, k) == SelectSeq(f, LAMBDA kv : kv[1] # k)

\* C12: Job.findAll with hasEquity false puts no equity predicate in the
\* query and, whatever the store and the other filters, gives what the call
\* without hasEquity gives; with hasEquity true it returns the jobs that
\* pass the other filters and have equity above 0, and no others.
C12_FalseEquityIsNoFilter ==
    (op = "Job.findAll" /\ HasProp(filters, "hasEquity")) =>
        /\ Prop(filters, "hasEquity") = Bool(FALSE) =>
               LET omitted == JobFindAll(Without(filters, "hasEquity"), DB0)
               IN  /\ \A i \in 1..Len(ReadWhere) : ReadWhere[i].col # "equity"
                   /\ omitted = JobFindAll(filters, DB0)
                   /\ \E r \in omitted :
                          /\ r.outcome = outcome /\ r.ret = ret /\ r.log = log
                          /\ r.db = DB
        /\ Prop(filters, "hasEquity") = Bool(TRUE) =>
               LET wanted == {r \in jobs0 : /\ JobWanted(filters, r)
                                            /\ IsNum(r.equity) /\ r.equity.num > 0}
               IN  /\ outcome = "ok"
                   /\ {ret.rows[i] : i \in 1..Len(ret.rows)} = wanted
                   /\ Len(ret.rows) = Cardinality(wanted)
                   /\ \E i \in 1..Len(ReadWhere) : ReadWhere[i].col = "equity"

C12_Witness ==
    /\ op = "Job.findAll" /\ outcome = "ok"
    /\ HasProp(filters, "hasEquity") /\ HasProp(filters, "minSalary")
    /\ Prop(filters, "hasEquity") = Bool(FALSE)
    /\ \E i \in 1..Len(ret.rows) : ret.rows[i].equity = Num(0)
    /\ \E r \in jobs0 : r.equity = Num(1)

-----------------------------------------------------------------------------
(* helpers/utils.js *)

\* a comparison that converts its operands, as == does
StrictEquals_Loose(a, b) ==
    \/ a = b
    \/ a \in {Num(1), Bool(TRUE)} /\ b = Text(<<"1">>)
    \/ a \in {Num(0), Bool(FALSE)} /\ b = Text(<<"0">>)

\* a === b: the same type and the same value
StrictEquals(a, b) == a = b

parseBool(value) ==
    IF \/ StrictEquals(value, Text(<<"t", "r", "u", "e">>))
       \/ StrictEquals(value, Text(<<"1">>))
    THEN Bool(TRUE)
    ELSE IF \/ StrictEquals(value, Text(<<"f", "a", "l", "s", "e">>))
            \/ StrictEquals(value, Text(<<"0">>))
    THEN Bool(FALSE)
    ELSE Null

\* parseBool on its own: one call per input

\* the longest string made of BoolChars given to parseBool
MaxStr == 2
BoolChars == {"0", "1", "t", "e", "T", " "}

RECURSIVE StringsUpTo(_)
StringsUpTo(n) ==
    IF n = 0 THEN {<<>>}
    ELSE LET shorter == StringsUpTo(n - 1)
         IN  shorter \cup {Append(s, c) : s \in shorter, c \in BoolChars}

BoolWords ==
    {<<"t", "r", "u", "e">>, <<"f", "a", "l", "s", "e">>, <<"y", "e", "s">>,
     <<"T", "R", "U", "E">>, <<"T", "r", "u", "e">>, <<"F", "a", "l", "s", "e">>,
     <<"t", "r", "u", "e", " ">>, <<"1", ".", "0">>, <<"n", "o">>}

BoolInputs ==
    {Text(s) : s \in StringsUpTo(MaxStr) \cup BoolWords}
        \cup {Num(0), Num(1), Num(2), Bool(TRUE), Bool(FALSE), Undefined, Null}

BoolInit ==
    /\ companies = {} /\ jobs = {} /\ nextId = 1
    /\ op = "none" /\ key = Null /\ data = <<>> /\ filters = <<>>
    /\ outcome = "none" /\ ret = NoValue /\ log = <<>>
    /\ companies0 = {} /\ jobs0 = {}
    /\ jsToSql = Undefined /\ built = NotCalled
    /\ input \in BoolInputs /\ result = NoValue
    /\ procs = <<>> /\ users = {} /\ req = NoRequest

CallParseBool ==
    /\ result = NoValue
    /\ result' = parseBool(input)
    /\ UNCHANGED <<storeVars, callVars, data, jsToSql, built, input, procs, webVars>>

BoolNext == CallParseBool

SpecBool == BoolInit /\ [][BoolNext]_vars

\* C13: parseBool gives true for the strings "true" and "1" and for nothing
\* else, false for the strings "false" and "0" and for nothing else, and
\* null for every other input: "yes", "", "TRUE", the number 1, the boolean
\* true, undefined; it always gives one of the three.
C13_ParseBoolIsTotal ==
    result # NoValue =>
        /\ result \in {Bool(TRUE), Bool(FALSE), Null}
        /\ result = Bool(TRUE) <=>
               input \in {Text(<<"t", "r", "u", "e">>), Text(<<"1">>)}
        /\ result = Bool(FALSE) <=>
               input \in {Text(<<"f", "a", "l", "s", "e">>), Text(<<"0">>)}
        /\ input \in {Text(<<"y", "e", "s">>), Text(<<>>), Text(<<"T", "R", "U", "E">>),
                      Num(1), Bool(TRUE), Undefined} => result = Null

C13_Witness ==
    /\ input = Num(1)
    /\ result = Null

-----------------------------------------------------------------------------
(* More claims about sqlForPartialUpdate, checked under SpecSql *)

\* C14: setCols depends on the keys of dataToUpdate, their order and the
\* alias map only: every data object with the same keys in the same order
\* gives the same setCols, whatever its values; setCols is made of quotes,
\* column names, = signs, placeholders and separators, and the values are
\* in the returned values list alone.
C14_SetColsIgnoresValues ==
    (built # NotCalled /\ built.threw = "none") =>
        /\ \A other \in SqlObjects :
               ObjectKeys(other) = ObjectKeys(data) =>
                   /\ sqlForPartialUpdate(other, jsToSql).setCols = built.setCols
                   /\ sqlForPartialUpdate(other, jsToSql).values = ObjectValues(other)
        /\ \A i \in 1..Len(built.setCols) :
               built.setCols[i] \in {"\"", "=", "$", ", "}
                                        \cup {ToString(n) : n \in 1..Len(data)}
                                        \cup {data[n][1] : n \in 1..Len(data)}
                                        \cup SqlColumns
        /\ built.values = ObjectValues(data)

C14_Witness ==
    /\ built.threw = "none"
    /\ Len(data) = 2
    /\ data[1][2] = Num(32) /\ data[2][2] = Null
    /\ \E other \in SqlObjects :
           /\ ObjectKeys(other) = ObjectKeys(data)
           /\ other[1][2] = Null /\ other[2][2] = Num(32)
           /\ sqlForPartialUpdate(other, jsToSql).setCols = built.setCols

-----------------------------------------------------------------------------
(* More claims about Company and Job, checked under Spec *)

\* C17 (as claimed): Company.update and Job.update with non-empty data of k
\* keys send one statement whose SET placeholders are $1..$k in order, whose
\* key predicate has placeholder $(k+1), and whose arguments are the
\* builder's values followed by the key, so that every placeholder binds
\* the value meant for it and no number is used twice.
C17_KeyPlaceholderIsNext ==
    (IsUpdate /\ data # <<>>) =>
        /\ Len(log) = 1
        /\ LET args == log[1].args
               k == Len(data)
               set == ParseSet(log[1].stmt.set, Len(args))
               where == ReadWhere
           IN  /\ built.threw = "none"
               /\ args = built.values \o <<key>>
               /\ Len(args) = k + 1
               /\ AllOk(set) /\ AllOk(where)
               /\ Len(set) = k /\ Len(where) = 1
               /\ NumbersIn(set) \o NumbersIn(where) = [i \in 1..(k + 1) |-> i]
               /\ \A i \in 1..k :
                      /\ set[i].col = ColumnOf(data[i][1])
                      /\ args[set[i].param] = data[i][2]
               /\ <<where[1].col, where[1].cmp>> = <<KeyColumn, "=">>
               /\ args[where[1].param] = key

-----------------------------------------------------------------------------
(* Two create calls of different requests, interleaved at their awaits:    *)
(* each sends its duplicate check, later its insert; the store answers one *)
(* query at a time.                                                        *)

Create(method, payload) ==
    [method |-> method, payload |-> payload, pc |-> "check", outcome |-> "none",
     ret |-> NoValue]

SameKey(p, q) ==
    /\ Get(p, "handle") = Get(q, "handle")
    /\ Get(p, "title") = Get(q, "title")
    /\ Get(p, "company_handle") = Get(q, "company_handle")

\* pairs of calls for the same handle, or the same title and company_handle
RacingCreates ==
    {<<Create("Company.create", pq[1]), Create("Company.create", pq[2])>>
         : pq \in {x \in CompanyPayloads \X CompanyPayloads : SameKey(x[1], x[2])}}
    \cup {<<Create("Job.create", pq[1]), Create("Job.create", pq[2])>>
              : pq \in {x \in JobPayloads \X JobPayloads : SameKey(x[1], x[2])}}

RaceInit ==
    /\ companies \in SUBSET SeedCompanies
    /\ jobs \in SUBSET SeedJobs
    /\ nextId = Cardinality(SeedJobs) + 1
    /\ op = "none" /\ key = Null /\ data = <<>> /\ filters = <<>>
    /\ outcome = "none" /\ ret = NoValue /\ log = <<>>
    /\ companies0 = companies /\ jobs0 = jobs
    /\ jsToSql = Undefined /\ built = NotCalled
    /\ input = Undefined /\ result = NoValue
    /\ procs \in RacingCreates
    /\ users = {} /\ req = NoRequest

DuplicateCheckOf(c) ==
    IF c.method = "Company.create" THEN CompanyDuplicateCheck(c.payload)
    ELSE JobDuplicateCheck(c.payload)
InsertOf(c) ==
    IF c.method = "Company.create" THEN CompanyInsert(c.payload)
    ELSE JobInsert(c.payload)

\* the answers the store may give to a query now
Answers(q) == Query(q.stmt, q.args, DB)

\* the store has answered r to call p, which goes on as `after`
Answered(p, r, after) ==
    /\ procs' = [procs EXCEPT ![p] = after]
    /\ companies' = r.db.companies /\ jobs' = r.db.jobs /\ nextId' = r.db.nextId
    /\ UNCHANGED <<callVars, data, jsToSql, built, boolVars, webVars>>

\* const duplicateCheck = await db.query(...); if (duplicateCheck.rows[0]) throw
AwaitDuplicateCheck ==
    \E p \in DOMAIN procs :
        /\ procs[p].pc = "check"
        /\ \E r \in Answers(DuplicateCheckOf(procs[p])) :
               Answered(p, r,
                        IF r.err
                        THEN [procs[p] EXCEPT !.pc = "done", !.outcome = "DatabaseError"]
                        ELSE IF IsDuplicate(r.rows)
                        THEN [procs[p] EXCEPT !.pc = "done", !.outcome = "BadRequestError"]
                        ELSE [procs[p] EXCEPT !.pc = "insert"])

\* const result = await db.query(...); return result.rows[0]
AwaitInsert ==
    \E p \in DOMAIN procs :
        /\ procs[p].pc = "insert"
        /\ \E r \in Answers(InsertOf(procs[p])) :
               Answered(p, r,
                        IF r.err
                        THEN [procs[p] EXCEPT !.pc = "done", !.outcome = "DatabaseError"]
                        ELSE [procs[p] EXCEPT !.pc = "done", !.outcome = "ok",
                                              !.ret = [row |-> r.rows[1]]])

RaceNext == AwaitDuplicateCheck \/ AwaitInsert

SpecRace == RaceInit /\ [][RaceNext]_vars

\* C19 (as claimed): when two creates for the same key have both ended,
\* however their round-trips interleaved, at most one has inserted a row
\* and every one that has not has thrown BadRequestError.
C19_RacingCreatesOneWins ==
    (procs # <<>> /\ \A p \in DOMAIN procs : procs[p].pc = "done") =>
        /\ Cardinality({p \in DOMAIN procs : procs[p].outcome = "ok"}) <= 1
        /\ Cardinality(companies) + Cardinality(jobs)
               <= Cardinality(companies0) + Cardinality(jobs0) + 1
        /\ \A p \in DOMAIN procs :
               procs[p].outcome # "ok" => procs[p].outcome = "BadRequestError"

-----------------------------------------------------------------------------
(* routes/users.js: the routes on /users/:username, with the middleware    *)
(* (middleware/auth.js) and the User model (models/user.js) they call.     *)

Usernames == {"u1", "u2", "a1"}

\* res.locals.user: undefined without a valid token, else the token's payload
Anonymous == [anonymous |-> TRUE]
Requestors ==
    {Anonymous, [username |-> "u1", isAdmin |-> FALSE],
     [username |-> "a1", isAdmin |-> TRUE]}

Routes ==
    {"GET /:username", "PATCH /:username", "DELETE /:username",
     "POST /:username/jobs/:id"}

\* how ensureAdmin turns a request down: it calls next(err), as Express
\* middleware does, or it throws
Refusals == {"next(err)", "throw"}

\* ensureLoggedIn and ensureAdmin let the request through
LoggedIn(user) == user # Anonymous
IsAdmin(user) == user # Anonymous /\ user.isAdmin

\* ensureAdmin(req, res, next) calls the function it was given as next:
\* without an argument for an admin, with the error when it refuses that way
CallsNext(user, refusal) == IsAdmin(user) \/ refusal = "next(err)"

\* User.get, User.update, User.remove, User.applyToJob on the users table
\* `table`: the error thrown if any, and the table afterwards
UserCall(route, username, id, table) ==
    IF username \notin DOMAIN table
    THEN [err |-> "NotFoundError", users |-> table]
    ELSE CASE route \in {"GET /:username", "PATCH /:username"} ->
                  [err |-> "none", users |-> table]
           [] route = "DELETE /:username" ->
                  [err |-> "none",
                   users |-> [u \in DOMAIN table \ {username} |-> table[u]]]
           [] route = "POST /:username/jobs/:id" ->
                  IF id \notin {j.id : j \in jobs}
                  THEN [err |-> "NotFoundError", users |-> table]
                  ELSE IF id \in table[username]
                  THEN [err |-> "DatabaseError", users |-> table]
                  ELSE [err |-> "none",
                        users |-> [table EXCEPT ![username] = @ \cup {id}]]

\* what has become of a request: model calls made, res.json calls, next(err)
\* calls, rejections nobody handles, the body sent, the users table
Forwarded(table) ==
    [ran |-> 0, sent |-> 0, forwarded |-> 1, lost |-> 0, body |-> NoValue,
     users |-> table]

\* await User.x(...) inside try ... catch (err) { return next(err) }, or
\* User.x(...).then(() => res.json(...)).catch(next)
Caught(call, body) ==
    [ran |-> 1,
     sent |-> IF call.err = "none" THEN 1 ELSE 0,
     forwarded |-> IF call.err = "none" THEN 0 ELSE 1,
     lost |-> 0,
     body |-> IF call.err = "none" THEN body ELSE NoValue,
     users |-> call.users]

\* await User.x(...) in an async callback with no catch, its promise dropped
Uncaught(call, body) ==
    [ran |-> 1,
     sent |-> IF call.err = "none" THEN 1 ELSE 0,
     forwarded |-> 0,
     lost |-> IF call.err = "none" THEN 0 ELSE 1,
     body |-> IF call.err = "none" THEN body ELSE NoValue,
     users |-> call.users]

\* router.get("/:username", ensureLoggedIn, async function (req, res, next) ...)
GetUser(r, table) ==
    LET call == UserCall(r.route, r.target, r.id, table)
        body == [user |-> r.target]
    IN  IF ~LoggedIn(r.user) THEN Forwarded(table)
        ELSE IF r.user.username = r.target THEN Caught(call, body)
        ELSE IF CallsNext(r.user, r.refusal) THEN Uncaught(call, body)
        ELSE Forwarded(table)

\* router.patch("/:username", ensureLoggedIn, async function (req, res, next) ...)
PatchUser(r, table) ==
    LET call == UserCall(r.route, r.target, r.id, table)
        body == [user |-> r.target]
    IN  IF ~LoggedIn(r.user) THEN Forwarded(table)
        ELSE IF ~r.valid THEN Forwarded(table)
        ELSE IF r.user.username = r.target THEN Caught(call, body)
        ELSE IF CallsNext(r.user, r.refusal) THEN Caught(call, body)
        ELSE Forwarded(table)

\* router.delete("/:username", ensureLoggedIn, async function (req, res, next) ...)
DeleteUser(r, table) ==
    LET call == UserCall(r.route, r.target, r.id, table)
        body == [deleted |-> r.target]
    IN  IF ~LoggedIn(r.user) THEN Forwarded(table)
        ELSE IF r.user.username = r.target THEN Caught(call, body)
        ELSE IF CallsNext(r.user, r.refusal) THEN Caught(call, body)
        ELSE Forwarded(table)

\* router.post("/:username/jobs/:id", ensureLoggedIn, ensureAdmin, async ...)
ApplyToJob(r, table) ==
    LET call == UserCall(r.route, r.target, r.id, table)
        body == [applied |-> r.id]
    IN  IF ~LoggedIn(r.user) THEN Forwarded(table)
        ELSE IF ~IsAdmin(r.user) THEN Forwarded(table)
        ELSE IF r.user.username = r.target THEN Caught(call, body)
        ELSE IF CallsNext(r.user, r.refusal) THEN Caught(call, body)
        ELSE Forwarded(table)

\* the requests: the job id matters to the POST route only, the validity of
\* the body to the PATCH route only
JobIds == {Num(1), Num(4)}
Requests ==
    {r \in [route : Routes, user : Requestors, target : Usernames, id : JobIds,
            valid : BOOLEAN, refusal : Refusals, stage : {"received"},
            ran : {0}, sent : {0}, forwarded : {0}, lost : {0}, body : {NoValue},
            before : {NoValue}] :
        /\ r.route # "POST /:username/jobs/:id" => r.id = Num(1)
        /\ r.route # "PATCH /:username" => r.valid}

WebInit ==
    /\ companies = SeedCompanies /\ jobs = SeedJobs
    /\ nextId = Cardinality(SeedJobs) + 1
    /\ op = "none" /\ key = Null /\ data = <<>> /\ filters = <<>>
    /\ outcome = "none" /\ ret = NoValue /\ log = <<>>
    /\ companies0 = companies /\ jobs0 = jobs
    /\ jsToSql = Undefined /\ built = NotCalled
    /\ input = Undefined /\ result = NoValue
    /\ procs = <<>>
    /\ users \in UNION {[S -> {{}}] : S \in SUBSET Usernames}
    /\ req = NoRequest

Arrive ==
    /\ req = NoRequest
    /\ req' \in Requests
    /\ UNCHANGED <<storeVars, callVars, data, jsToSql, built, boolVars, procs, users>>

\* the route has run to its end, callbacks and promises included
Settled(o) ==
    /\ req' = [req EXCEPT !.stage = "done", !.ran = o.ran, !.sent = o.sent,
                          !.forwarded = o.forwarded, !.lost = o.lost,
                          !.body = o.body, !.before = users]
    /\ users' = o.users
    /\ UNCHANGED <<storeVars, callVars, data, jsToSql, built, boolVars, procs>>

Received(route) == req # NoRequest /\ req.stage = "received" /\ req.route = route

HandleGetUser == Received("GET /:username") /\ Settled(GetUser(req, users))
HandlePatchUser == Received("PATCH /:username") /\ Settled(PatchUser(req, users))
HandleDeleteUser == Received("DELETE /:username") /\ Settled(DeleteUser(req, users))
HandleApplyToJob ==
    Received("POST /:username/jobs/:id") /\ Settled(ApplyToJob(req, users))

Finish ==
    /\ req # NoRequest /\ req.stage = "done"
    /\ req' = NoRequest
    /\ UNCHANGED <<storeVars, callVars, data, jsToSql, built, boolVars, procs, users>>

WebNext ==
    \/ Arrive
    \/ HandleGetUser
    \/ HandlePatchUser
    \/ HandleDeleteUser
    \/ HandleApplyToJob
    \/ Finish

SpecWeb == WebInit /\ [][WebNext]_vars

-----------------------------------------------------------------------------
(* Claims about the /users routes, checked under SpecWeb.  They read the   *)
(* request that has just been settled: req.before is the users table it    *)
(* found.                                                                  *)

Done == req # NoRequest /\ req.stage = "done"
OnUser == req.route \in {"GET /:username", "PATCH /:username", "DELETE /:username"}
SelfOrAdmin ==
    LoggedIn(req.user) /\ (req.user.username = req.target \/ req.user.isAdmin)

\* C15 (as claimed): on GET, PATCH and DELETE /users/:username the User
\* method runs, and a success response is sent, only for a requestor who is
\* the target user or an admin; a logged-in non-admin asking about another
\* user never makes the method run.
C15_OnlySelfOrAdminRuns ==
    (Done /\ OnUser) =>
        /\ (req.ran > 0 \/ req.sent > 0) => SelfOrAdmin
        /\ (LoggedIn(req.user) /\ ~SelfOrAdmin) => (req.ran = 0 /\ users = req.before)

\* C16 (as claimed): on POST /users/:username/jobs/:id a logged-in user who
\* is the target user, admin or not, and any admin reach User.applyToJob
\* and, when it succeeds, get { applied: jobId }.
C16_SelfOrAdminApplies ==
    (Done /\ req.route = "POST /:username/jobs/:id" /\ SelfOrAdmin) =>
        /\ req.ran = 1
        /\ UserCall(req.route, req.target, req.id, req.before).err = "none" =>
               /\ req.sent = 1 /\ req.forwarded = 0
               /\ req.body = [applied |-> req.id]
               /\ req.id \in users[req.target]

\* C20 (as claimed): a GET, PATCH or DELETE /users/:username by the target
\* user or by an admin ends with exactly one outcome, one JSON response or
\* one error passed to next; an error thrown by the User method (the target
\* user unknown) is passed to next and never lost.
C20_ExactlyOneOutcome ==
    (Done /\ OnUser /\ SelfOrAdmin) =>
        /\ req.sent + req.forwarded = 1
        /\ req.lost = 0
        /\ UserCall(req.route, req.target, req.id, req.before).err # "none" =>
               req.forwarded = 1

-----------------------------------------------------------------------------
(* Job.findAll: which hasEquity values filter on equity *)

\* the call's query has a predicate on the equity column
EquityPredicateEmitted ==
    \E i \in 1..Len(ReadWhere) : ReadWhere[i].col = "equity"

\* C21: Job.findAll puts the predicate equity > 0 in its query only when
\* hasEquity is true; with hasEquity null, false or undefined the query has
\* no equity predicate and the call gives what the call without hasEquity
\* gives, so the jobs with equity 0 that pass the other filters are returned.
C21_EquityOnlyWhenTrue ==
    op = "Job.findAll" =>
        LET hasEquity == Get(filters, "hasEquity")
            omitted == JobFindAll(Without(filters, "hasEquity"), DB0)
        IN  /\ EquityPredicateEmitted <=> hasEquity = Bool(TRUE)
            /\ hasEquity # Bool(TRUE) =>
                   /\ \E r \in omitted : r.outcome = outcome /\ r.ret = ret
                   /\ \A j \in jobs0 :
                          (j.equity = Num(0) /\ JobWanted(filters, j) /\ outcome = "ok")
                              => \E i \in 1..Len(ret.rows) : ret.rows[i] = j

====
